---------------------------- MODULE Spec2Model ----------------------------
(***************************************************************************)
(* Routing and orchestration layer of the post-purchase multi-agent        *)
(* chatbot: AgentRouter (orchestration/routing_logic.py), StateManager     *)
(* (orchestration/state_management.py), the LangGraph workflow of          *)
(* AgentOrchestrator (orchestration/langgraph_flow.py) and the escalation  *)
(* check and routing entry point of ControllerAgent                        *)
(* (agents/controller_agent.py).                                           *)
(*                                                                         *)
(* Text is modelled as a sequence of one-character strings, so that        *)
(* str.lower() and the substring test `keyword in message` are computed    *)
(* as Python computes them.  A dict is a function whose domain is its keys.  *)
(***************************************************************************)
EXTENDS Integers, Sequences, FiniteSets, TLC

VARIABLES
    states,       \* StateManager.states: conversation id -> ConversationState
    run_id,       \* the conversation the graph is running on (None outside a run)
    has_monitor,  \* whether AgentOrchestrator.agents holds a 'monitor' agent
    node,         \* the graph node about to execute: "idle" outside a run, END when done
    trace,        \* history: the nodes executed so far in the current run
    rules,        \* ControllerAgent.escalation_rules['automatic_escalation_triggers']
    request,      \* the arguments of the current route_request call (<<>> when none)
    pc,           \* position of the route_request call
    escalation,   \* what _check_escalation returned for the current call
    response,     \* how the completion call of the current attempt resolved
    attempts,     \* completion calls made by the current route_request call
    healthy,      \* ControllerAgent._healthy
    result,       \* what route_request handed to its caller
    calls,        \* caller -> the StateManager.add_message call it is executing
    messages_of,  \* conversation id -> the list object its state['messages'] refers to
    exported,     \* the JSON document export_state returned (<<>> when none)
    fresh,        \* the states dict of a fresh StateManager that imports it
    ops,          \* StateManager operations performed in the store model
    last_call,    \* the last state-mutating call: its name, its id and the exception it raised
    routed,       \* the last call, if of AgentRouter.route: arguments, result, and the run
    called        \* the last call, if of should_escalate / get_next_agent: arguments, result

vars == <<states, run_id, has_monitor, node, trace,
          rules, request, pc, escalation, response, attempts, healthy, result,
          calls, messages_of, exported, fresh, ops, last_call, routed, called>>

graph_vars == <<states, run_id, has_monitor, node, trace>>

controller_vars == <<rules, request, pc, escalation, response, attempts, healthy, result>>

thread_vars == <<calls>>

store_vars == <<messages_of, exported, fresh, ops, last_call>>

router_vars == <<routed, called>>

\* what the graph leaves alone
outside_graph == <<controller_vars, thread_vars, store_vars, router_vars>>

\* what route_request leaves alone
outside_controller == <<graph_vars, thread_vars, store_vars, router_vars>>

None == "None"

\* dict.get(key, default)
get(d, key, default) == IF key \in DOMAIN d THEN d[key] ELSE default

\* truthiness of d.get(key) for a key that holds a bool
flag(d, key) == get(d, key, FALSE) = TRUE

\* truthiness of d.get(key) for a key that holds a str (None when unset)
present(d, key) == get(d, key, None) \notin {None, ""}

\* dict.update(other)
update(d, other) ==
    [key \in DOMAIN d \cup DOMAIN other |->
        IF key \in DOMAIN other THEN other[key] ELSE d[key]]

END == "__end__"

-----------------------------------------------------------------------------
(* Text *)

UpperCase == <<"A","B","C","D","E","F","G","H","I","J","K","L","M","N","O","P","Q","R","S","T","U","V","W","X","Y","Z">>

LowerCase == <<"a","b","c","d","e","f","g","h","i","j","k","l","m","n","o","p","q","r","s","t","u","v","w","x","y","z">>

\* str.lower() on one character
lower_char(c) ==
    IF \E i \in 1..Len(UpperCase) : UpperCase[i] = c
    THEN LowerCase[CHOOSE i \in 1..Len(UpperCase) : UpperCase[i] = c]
    ELSE c

\* str.lower()
lower(s) == [i \in 1..Len(s) |-> lower_char(s[i])]

\* Python's `sub in s` on strings
contains(sub, s) ==
    \E i \in 0..(Len(s) - Len(sub)) :
        \A j \in 1..Len(sub) : s[i + j] = sub[j]

-----------------------------------------------------------------------------
(* AgentRouter *)

Specialists == {"monitor", "visual", "exchange", "resolution"}

\* AgentRouter.intent_keywords, in declaration (dict insertion) order
intent_keywords == <<
    [intent |-> "order_status",
     keywords |-> << <<"t","r","a","c","k">>, <<"s","t","a","t","u","s">>, <<"w","h","e","r","e"," ","i","s">>, <<"s","h","i","p","p","e","d">>, <<"d","e","l","i","v","e","r","y">> >>],
    [intent |-> "defect",
     keywords |-> << <<"d","e","f","e","c","t">>, <<"b","r","o","k","e","n">>, <<"d","a","m","a","g","e","d">>, <<"w","r","o","n","g"," ","i","t","e","m">>, <<"q","u","a","l","i","t","y">> >>],
    [intent |-> "exchange",
     keywords |-> << <<"e","x","c","h","a","n","g","e">>, <<"d","i","f","f","e","r","e","n","t"," ","s","i","z","e">>, <<"d","i","f","f","e","r","e","n","t"," ","c","o","l","o","r">>, <<"s","w","a","p">> >>],
    [intent |-> "refund",
     keywords |-> << <<"r","e","f","u","n","d">>, <<"m","o","n","e","y"," ","b","a","c","k">>, <<"r","e","t","u","r","n">>, <<"c","a","n","c","e","l">> >>],
    [intent |-> "sizing",
     keywords |-> << <<"s","i","z","e">>, <<"f","i","t">>, <<"t","o","o"," ","s","m","a","l","l">>, <<"t","o","o"," ","l","a","r","g","e">>, <<"t","o","o"," ","b","i","g">> >> ] >>

\* sum(1 for keyword in keywords if keyword in message_lower)
keyword_score(keywords, message_lower) ==
    Cardinality({k \in 1..Len(keywords) : contains(keywords[k], message_lower)})

\* mutant: on equal scores the intent declared last wins
detect_intent_last_wins(message, context) ==
    LET message_lower == lower(message)
        score(i) == keyword_score(intent_keywords[i].keywords, message_lower)
        \* intent_scores holds the intents that scored, in declaration order
        scored == {i \in 1..Len(intent_keywords) : score(i) > 0}
        \* the last maximal key
        best == CHOOSE i \in scored :
                    /\ \A j \in scored : score(j) <= score(i)
                    /\ \A j \in scored : score(j) = score(i) => j <= i
    IN  IF flag(context, "image_uploaded") THEN "visual_verification"
        ELSE IF scored # {} THEN intent_keywords[best].intent
        ELSE "general_query"

\* AgentRouter._detect_intent
detect_intent(message, context) ==
    LET message_lower == lower(message)
        score(i) == keyword_score(intent_keywords[i].keywords, message_lower)
        \* intent_scores holds the intents that scored, in declaration order
        scored == {i \in 1..Len(intent_keywords) : score(i) > 0}
        \* max(intent_scores, key=intent_scores.get): the first maximal key
        best == CHOOSE i \in scored :
                    /\ \A j \in scored : score(j) <= score(i)
                    /\ \A j \in scored : score(j) = score(i) => i <= j
    IN  IF flag(context, "image_uploaded") THEN "visual_verification"
        ELSE IF scored # {} THEN intent_keywords[best].intent
        ELSE "general_query"

\* mutant: refunds are left with the controller
intent_agent_map_without_refund(intent) ==
    CASE intent \in {"order_status", "tracking"} -> "monitor"
      [] intent \in {"defect", "visual_verification"} -> "visual"
      [] intent \in {"exchange", "sizing"} -> "exchange"
      [] intent \in {"return", "policy_question"} -> "resolution"
      [] OTHER -> "controller"

\* intent_agent_map.get(intent, 'controller')
intent_agent_map(intent) ==
    CASE intent \in {"order_status", "tracking"} -> "monitor"
      [] intent \in {"defect", "visual_verification"} -> "visual"
      [] intent \in {"exchange", "sizing"} -> "exchange"
      [] intent \in {"refund", "return", "policy_question"} -> "resolution"
      [] OTHER -> "controller"

\* AgentRouter._map_intent_to_agent
map_intent_to_agent(intent, context) ==
    IF flag(context, "escalate") THEN "human"
    ELSE IF flag(context, "requires_approval") THEN "resolution"
    ELSE intent_agent_map(intent)

\* the keywords of an intent: self.intent_keywords.get(intent, [])
keywords_of(intent) ==
    IF \E i \in 1..Len(intent_keywords) : intent_keywords[i].intent = intent
    THEN intent_keywords[CHOOSE i \in 1..Len(intent_keywords) :
                             intent_keywords[i].intent = intent].keywords
    ELSE <<>>

\* mutant: the order_id bonus is given whatever the intent
calculate_confidence_bonus_always(message, intent, context) ==
    LET match_count == keyword_score(keywords_of(intent), lower(message))
        base_confidence == IF match_count >= 2 THEN 90
                           ELSE IF match_count = 1 THEN 75
                           ELSE 70
        bonus == IF present(context, "order_id") THEN 10 ELSE 0
    IN  IF base_confidence + bonus < 100 THEN base_confidence + bonus ELSE 100

\* AgentRouter._calculate_confidence, in hundredths (0.7 is 70)
calculate_confidence(message, intent, context) ==
    LET match_count == keyword_score(keywords_of(intent), lower(message))
        base_confidence == IF match_count >= 2 THEN 90
                           ELSE IF match_count = 1 THEN 75
                           ELSE 70
        bonus == IF present(context, "order_id")
                    /\ intent \in {"order_status", "refund", "exchange"}
                 THEN 10 ELSE 0
    IN  IF base_confidence + bonus < 100 THEN base_confidence + bonus ELSE 100

\* AgentRouter.route
route(user_message, context) ==
    LET intent == detect_intent(user_message, context)
    IN  [agent |-> map_intent_to_agent(intent, context),
         intent |-> intent,
         confidence |-> calculate_confidence(user_message, intent, context)]

\* the turn limit of the loop guard and of should_escalate
TurnLimit == 10

\* mutant: the turn limit itself already escalates
should_escalate_at_limit(context) ==
    \/ get(context, "sentiment", None) = "very_negative"
    \/ get(context, "turn_count", 0) >= TurnLimit
    \/ flag(context, "legal_keywords_detected")
    \/ flag(context, "high_value_order")

\* AgentRouter.should_escalate
should_escalate(context) ==
    \/ get(context, "sentiment", None) = "very_negative"
    \/ get(context, "turn_count", 0) > TurnLimit
    \/ flag(context, "legal_keywords_detected")
    \/ flag(context, "high_value_order")

\* the `transitions` table of AgentRouter.get_next_agent: the items of the
\* agent's dict in insertion order, its 'default' entry included
transitions(current_agent) ==
    CASE current_agent = "monitor" ->
            << [condition |-> "delay_detected", next_agent |-> "resolution"],
               [condition |-> "issue_found", next_agent |-> "resolution"],
               [condition |-> "default", next_agent |-> "controller"] >>
      [] current_agent = "visual" ->
            << [condition |-> "defect_confirmed", next_agent |-> "resolution"],
               [condition |-> "exchange_needed", next_agent |-> "exchange"],
               [condition |-> "default", next_agent |-> "controller"] >>
      [] current_agent = "exchange" ->
            << [condition |-> "out_of_stock", next_agent |-> "resolution"],
               [condition |-> "exchange_processed", next_agent |-> "end"],
               [condition |-> "default", next_agent |-> "controller"] >>
      [] current_agent = "resolution" ->
            << [condition |-> "refund_processed", next_agent |-> "end"],
               [condition |-> "default", next_agent |-> "controller"] >>
      [] OTHER -> <<>>

\* AgentRouter.get_next_agent: 'end' for a completed task, else the next agent
\* of the first condition of the table that the result carries with a truthy
\* value, else 'controller'
get_next_agent(current_agent, task_result) ==
    LET agent_transitions == transitions(current_agent)
        met == { i \in 1..Len(agent_transitions) :
                   flag(task_result, agent_transitions[i].condition) }
    IN  IF flag(task_result, "completed") THEN "end"
        ELSE IF met # {}
        THEN agent_transitions[CHOOSE i \in met : \A j \in met : i <= j].next_agent
        ELSE "controller"

-----------------------------------------------------------------------------
(* StateManager *)

\* StateManager.create_state: the initial ConversationState.  The wall-clock
\* values (context.started_at, message timestamps) are left out.
create_state(conversation_id, customer_id, order_id) ==
    [conversation_id |-> conversation_id,
     customer_id |-> customer_id,
     order_id |-> order_id,
     messages |-> <<>>,
     current_agent |-> "controller",
     context |-> [turn_count |-> 0, issues_detected |-> <<>>, sentiment |-> "neutral"],
     metadata |-> <<>>,
     next_action |-> None]

\* the message dict built by StateManager.add_message
new_message(role, content, agent_type) ==
    IF agent_type \notin {None, ""}
    THEN [role |-> role, content |-> content, agent_type |-> agent_type]
    ELSE [role |-> role, content |-> content]

\* StateManager.add_message on an existing state
add_message(state, role, content, agent_type) ==
    [state EXCEPT
        !.messages = Append(@, new_message(role, content, agent_type)),
        !.context = update(@, [turn_count |-> @.turn_count + 1])]

\* StateManager.update_context on an existing state
update_context(state, context_updates) ==
    [state EXCEPT !.context = update(@, context_updates)]

-----------------------------------------------------------------------------
(* AgentOrchestrator: the nodes and conditional edges of the graph *)

\* AgentOrchestrator._controller_node
controller_node(state) ==
    IF state.messages = <<>> THEN state
    ELSE LET last_message == state.messages[Len(state.messages)].content
             routing_decision == route(last_message, state.context)
         IN  [state EXCEPT
                 !.current_agent = routing_decision.agent,
                 !.next_action = routing_decision.agent,
                 !.context = update(@, [routing_confidence |-> routing_decision.confidence])]

\* AgentOrchestrator._monitor_node.  `registered` is self.agents.get('monitor');
\* `outcome` is what monitor_agent.check_order_status does: it raises, or it
\* returns a result with a status_message and the issues_detected list.
monitor_node(state, registered, outcome) ==
    LET order_id == IF state.order_id \notin {None, ""} THEN state.order_id
                    ELSE get(state.context, "order_id", None)
    IN  IF ~registered THEN [state EXCEPT !.next_action = END]
        ELSE IF order_id \in {None, ""} THEN [state EXCEPT !.next_action = END]
        ELSE IF outcome.kind = "raise" THEN [state EXCEPT !.next_action = END]
        ELSE LET appended ==
                     [state EXCEPT !.messages =
                         Append(@, [role |-> "assistant",
                                    content |-> outcome.status_message,
                                    agent_type |-> "monitor",
                                    timestamp |-> None])]
             IN  IF outcome.issues_detected # <<>>
                 THEN [appended EXCEPT
                          !.context = update(@, [issues_detected |-> outcome.issues_detected]),
                          !.next_action = "resolution"]
                 ELSE [appended EXCEPT !.next_action = END]

\* AgentOrchestrator._visual_node
visual_node(state) == [state EXCEPT !.next_action = END]

\* AgentOrchestrator._exchange_node
exchange_node(state) == [state EXCEPT !.next_action = END]

\* AgentOrchestrator._resolution_node
resolution_node(state) == [state EXCEPT !.next_action = END]

\* AgentOrchestrator._route_from_controller
route_from_controller(state) ==
    IF state.next_action \in Specialists THEN state.next_action ELSE END

\* mutant: the loop guard already fires on the turn limit itself
route_after_agent_off_by_one(state) ==
    IF state.next_action = END \/ get(state.context, "turn_count", 0) >= TurnLimit THEN END
    ELSE IF state.next_action \in Specialists THEN "controller"
    ELSE END

\* AgentOrchestrator._route_after_agent
route_after_agent(state) ==
    IF state.next_action = END \/ get(state.context, "turn_count", 0) > TurnLimit THEN END
    ELSE IF state.next_action \in Specialists THEN "controller"
    ELSE END

-----------------------------------------------------------------------------
(* Bounds and inputs of the orchestration model *)

\* add_message is applied, and a run is started, while a conversation holds
\* fewer than / at most this many messages
MaxMessages == 2

\* a run executes at most this many nodes
MaxVisits == 25

ConversationIds == {"conv_1"}

OrderIds == {None, "ORD123"}

\* what the customer writes
UserMessages == { <<"W","h","e","r","e"," ","i","s"," ","i","t">>, <<"s","w","a","p"," ","i","t">>, <<"r","e","f","u","n","d">>, <<"h","i">> }

\* what the front end records as the assistant's reply
AssistantMessages == { <<"o","n"," ","i","t">> }

\* status messages the monitor agent produces
StatusMessages == { <<"S","h","i","p","p","e","d">>, <<"w","a","i","t">> }

\* results of monitor_agent.check_order_status
MonitorOutcomes ==
    {[kind |-> "raise", status_message |-> <<>>, issues_detected |-> <<>>]}
    \cup [kind : {"result"}, status_message : StatusMessages,
          issues_detected : {<<>>, <<"delay">>}]

\* the mappings passed to update_context
ContextUpdates ==
    { [sentiment |-> "very_negative"],
      [escalate |-> TRUE],
      [requires_approval |-> TRUE],
      [image_uploaded |-> TRUE],
      [turn_count |-> TurnLimit],
      [turn_count |-> TurnLimit + 1] }

\* the values set_next_action is called with
PendingActions == {"monitor"}

-----------------------------------------------------------------------------
(* The orchestration state machine *)

Idle == node = "idle"

ControllerIdle ==
    /\ rules = <<>>
    /\ request = <<>>
    /\ pc = "idle"
    /\ escalation = <<>>
    /\ response = <<>>
    /\ attempts = 0
    /\ healthy = TRUE
    /\ result = <<>>

InitGraph ==
    /\ states = <<>>
    /\ run_id = None
    /\ has_monitor \in BOOLEAN
    /\ node = "idle"
    /\ trace = <<>>

\* no StateManager call is being executed step by step
ThreadsIdle == calls = <<>>

\* no list object is shared, nothing was exported or imported
StoreIdle ==
    /\ messages_of = <<>>
    /\ exported = <<>>
    /\ fresh = <<>>
    /\ ops = 0
    /\ last_call = <<>>

RouterIdle == routed = <<>> /\ called = <<>>

Init == InitGraph /\ ControllerIdle /\ ThreadsIdle /\ StoreIdle /\ RouterIdle

\* the dict `states` with states[id] set
store(id, state) ==
    [k \in DOMAIN states \cup {id} |-> IF k = id THEN state ELSE states[k]]

CreateState(id, order_id) ==
    /\ Idle
    /\ states' = store(id, create_state(id, None, order_id))
    /\ UNCHANGED <<run_id, has_monitor, node, trace>>
    /\ UNCHANGED outside_graph

AddMessage(id, role, content, agent_type) ==
    /\ Idle
    /\ id \in DOMAIN states
    /\ Len(states[id].messages) < MaxMessages
    /\ states' = store(id, add_message(states[id], role, content, agent_type))
    /\ UNCHANGED <<run_id, has_monitor, node, trace>>
    /\ UNCHANGED outside_graph

UpdateContext(id, context_updates) ==
    /\ Idle
    /\ id \in DOMAIN states
    /\ states' = store(id, update_context(states[id], context_updates))
    /\ UNCHANGED <<run_id, has_monitor, node, trace>>
    /\ UNCHANGED outside_graph

\* StateManager.set_next_action between runs; the caller makes the call on a
\* conversation that holds no message yet
SetNextAction(id, action) ==
    /\ Idle
    /\ id \in DOMAIN states
    /\ states[id].messages = <<>>
    /\ states' = store(id, [states[id] EXCEPT !.next_action = action])
    /\ UNCHANGED <<run_id, has_monitor, node, trace>>
    /\ UNCHANGED outside_graph

\* graph.invoke(state): the entry point is the controller node
StartRun(id) ==
    /\ Idle
    /\ id \in DOMAIN states
    /\ Len(states[id].messages) <= MaxMessages
    /\ run_id' = id
    /\ node' = "controller"
    /\ trace' = <<>>
    /\ UNCHANGED <<states, has_monitor>>
    /\ UNCHANGED outside_graph

\* one node executes and its conditional edge picks the next node
Visit(name, after, next) ==
    /\ node = name
    /\ Len(trace) < MaxVisits
    /\ states' = store(run_id, after)
    /\ node' = next
    /\ trace' = Append(trace, name)
    /\ UNCHANGED <<run_id, has_monitor>>
    /\ UNCHANGED outside_graph

ControllerNode ==
    LET after == controller_node(states[run_id])
    IN  Visit("controller", after, route_from_controller(after))

MonitorNode(outcome) ==
    LET after == monitor_node(states[run_id], has_monitor, outcome)
    IN  Visit("monitor", after, route_after_agent(after))

VisualNode ==
    LET after == visual_node(states[run_id])
    IN  Visit("visual", after, route_after_agent(after))

ExchangeNode ==
    LET after == exchange_node(states[run_id])
    IN  Visit("exchange", after, route_after_agent(after))

ResolutionNode ==
    LET after == resolution_node(states[run_id])
    IN  Visit("resolution", after, route_after_agent(after))

\* the run reached END: graph.invoke returns
FinishRun ==
    /\ node = END
    /\ node' = "idle"
    /\ run_id' = None
    /\ trace' = <<>>
    /\ UNCHANGED <<states, has_monitor>>
    /\ UNCHANGED outside_graph

NextGraph ==
    \/ \E id \in ConversationIds, order_id \in OrderIds : CreateState(id, order_id)
    \/ \E id \in ConversationIds, content \in UserMessages :
           AddMessage(id, "user", content, None)
    \/ \E id \in ConversationIds, content \in AssistantMessages :
           AddMessage(id, "assistant", content, "controller")
    \/ \E id \in ConversationIds, u \in ContextUpdates : UpdateContext(id, u)
    \/ \E id \in ConversationIds, action \in PendingActions : SetNextAction(id, action)
    \/ \E id \in ConversationIds : StartRun(id)
    \/ ControllerNode
    \/ \E outcome \in MonitorOutcomes : MonitorNode(outcome)
    \/ VisualNode
    \/ ExchangeNode
    \/ ResolutionNode
    \/ FinishRun

Next == NextGraph

Spec == Init /\ [][Next]_vars

-----------------------------------------------------------------------------
(* ControllerAgent: the escalation check *)

\* the condition dict of a trigger: trigger.get('condition', {})
condition_of(trigger) == get(trigger, "condition", <<>>)

\* any(keyword in user_message_lower for keyword in keywords)
keyword_match(keywords, user_message_lower) ==
    \E k \in 1..Len(keywords) : contains(keywords[k], user_message_lower)

\* mutant: the threshold itself already escalates
value_exceeds_or_equal(order_value, threshold) == order_value >= threshold

\* order_value > trigger['condition']['order_value_exceeds']
value_exceeds(order_value, threshold) == order_value > threshold

\* whether one trigger fires in the loop body of _check_escalation: the
\* keyword test, then the order-value test
trigger_fires(trigger, user_message_lower, context) ==
    \/ /\ "keywords" \in DOMAIN condition_of(trigger)
       /\ keyword_match(condition_of(trigger).keywords, user_message_lower)
    \/ /\ "order_value_exceeds" \in DOMAIN condition_of(trigger)
       /\ value_exceeds(get(context, "order_value", 0),
                        condition_of(trigger).order_value_exceeds)

\* the dict _check_escalation returns for the trigger that fired
escalation_decision(trigger) ==
    [should_escalate |-> TRUE,
     escalate_to_tier |-> trigger.escalate_to_tier,
     reason |-> trigger.reason,
     trigger_id |-> trigger.trigger_id,
     agent |-> "human_escalation"]

RECURSIVE check_triggers(_, _, _, _)
\* the for loop of _check_escalation from trigger i on
check_triggers(escalation_triggers, i, user_message_lower, context) ==
    IF i > Len(escalation_triggers) THEN [should_escalate |-> FALSE]
    ELSE IF trigger_fires(escalation_triggers[i], user_message_lower, context)
         THEN escalation_decision(escalation_triggers[i])
         ELSE check_triggers(escalation_triggers, i + 1, user_message_lower, context)

\* ControllerAgent._check_escalation
check_escalation(escalation_triggers, user_message, context) ==
    check_triggers(escalation_triggers, 1, lower(user_message), context)

-----------------------------------------------------------------------------
(* ControllerAgent.route_request *)

\* exceptions the retry decorator retries on
Retryable == {"APIError", "APITimeoutError", "TimeoutError"}

\* stop_after_attempt(3)
MaxAttempts == 3

\* the exceptions `except Exception` catches: every failure of the completion
\* call and of json.loads is a subclass of Exception
CaughtByExceptException == Retryable \cup {"JSONDecodeError"}

\* the fallback decision of the except clause
fallback_decision(error) ==
    [agent |-> "controller_agent", error |-> error, fallback |-> TRUE]

\* the statements of the try block after the escalation check: the awaited
\* completion call and the extraction of the function call.  An outcome is
\* [returned |-> dict] or [raised |-> exception type, message |-> str(e)].
try_completion(completion) ==
    CASE completion.kind \in Retryable ->
            [raised |-> completion.kind, message |-> completion.message]
      [] completion.kind = "function_call" ->
            IF completion.arguments_valid
            THEN [returned |->
                    [agent |-> completion.name,
                     parameters |-> completion.arguments,
                     reasoning |-> get(completion.arguments, "reasoning", ""),
                     confidence |-> get(completion.arguments, "confidence", 80)]]
            ELSE [raised |-> "JSONDecodeError", message |-> completion.message]
      [] OTHER ->
            [returned |->
                [agent |-> "controller_agent",
                 response |-> completion.content,
                 parameters |-> <<>>]]

\* mutant: the except clause catches the provider's exceptions only
except_api_errors_only(outcome) ==
    IF "raised" \in DOMAIN outcome /\ outcome.raised \in {"APIError", "APITimeoutError"}
    THEN [returned |-> fallback_decision(outcome.message)]
    ELSE outcome

\* the except clause around the try block
except_handler(outcome) ==
    IF "raised" \in DOMAIN outcome /\ outcome.raised \in CaughtByExceptException
    THEN [returned |-> fallback_decision(outcome.message)]
    ELSE outcome

\* the tenacity decorator: call again after a retryable exception while fewer
\* than MaxAttempts attempts were made; reraise=True hands the last exception
\* to the caller
retry_again(outcome, attempt_number) ==
    /\ "raised" \in DOMAIN outcome
    /\ outcome.raised \in Retryable
    /\ attempt_number < MaxAttempts

-----------------------------------------------------------------------------
(* Bounds and inputs of the controller model *)

\* the longest configured trigger list
MaxTriggers == 2

\* the closed set of trigger specifications the rule lists are drawn from
Triggers ==
    { [trigger_id |-> "ESC_LEGAL",
       condition |-> [keywords |-> << <<"s","u","e">>, <<"l","a","w","y","e","r">> >>],
       escalate_to_tier |-> 4, reason |-> "Legal threat"],
      [trigger_id |-> "ESC_LEGAL_CAPS",
       condition |-> [keywords |-> << <<"S","u","e">> >>],
       escalate_to_tier |-> 4, reason |-> "Legal threat"],
      [trigger_id |-> "ESC_VALUE",
       condition |-> [order_value_exceeds |-> 500],
       escalate_to_tier |-> 3, reason |-> "High value order"],
      [trigger_id |-> "ESC_VALUE_2",
       condition |-> [order_value_exceeds |-> 1000],
       escalate_to_tier |-> 4, reason |-> "Very high value order"],
      [trigger_id |-> "ESC_VIP",
       condition |-> [customer_tier |-> {"VIP", "Premium"}],
       auto_escalate |-> FALSE,
       escalate_to_tier |-> 2, reason |-> "VIP customer"] }

\* the trigger lists a rules file can hold: distinct triggers in any order
RuleLists ==
    UNION {{ts \in [1..n -> Triggers] : \A i, j \in 1..n : ts[i] = ts[j] => i = j} :
           n \in 0..MaxTriggers}

RequestMessages == { <<"I"," ","w","i","l","l"," ","S","U","E"," ","y","o","u">>, <<"s","u","e">>, <<"h","e","l","l","o">> }

OrderValues == {0, 499, 500, 501, 1000, 1001}

\* the contexts route_request is called with
RequestContexts ==
    {<<>>}
    \cup [order_value : OrderValues]
    \cup [customer_tier : {"VIP", "regular"}]
    \cup [order_value : {500, 501}, customer_tier : {"VIP"}]

\* how the awaited completion call resolves
Completions ==
    [kind : {"function_call"}, name : {"monitor_agent", "resolution_agent"},
     arguments_valid : {TRUE},
     arguments : {[reasoning |-> "r", query_type |-> "status"],
                  [reasoning |-> "r", query_type |-> "status", confidence |-> 95]},
     message : {""}]
    \cup [kind : {"function_call"}, name : {"monitor_agent"},
          arguments_valid : {FALSE}, arguments : {<<>>},
          message : {"Expecting value: line 1 column 1 (char 0)"}]
    \cup [kind : {"content"}, content : {"Happy to help."}]
    \cup [kind : {"APIError"}, message : {"Internal server error"}]
    \cup [kind : {"APITimeoutError"}, message : {"Request timed out."}]
    \cup [kind : {"TimeoutError"}, message : {""}]

-----------------------------------------------------------------------------
(* The controller: route_request as a state machine *)

\* after ControllerAgent.__init__ has loaded the rules file; no graph runs
InitController ==
    /\ rules \in RuleLists
    /\ request = <<>>
    /\ pc = "idle"
    /\ escalation = <<>>
    /\ response = <<>>
    /\ attempts = 0
    /\ healthy = TRUE
    /\ result = <<>>
    /\ states = <<>>
    /\ run_id = None
    /\ has_monitor = FALSE
    /\ node = "idle"
    /\ trace = <<>>
    /\ calls = <<>>
    /\ messages_of = <<>>
    /\ exported = <<>>
    /\ fresh = <<>>
    /\ ops = 0
    /\ last_call = <<>>
    /\ routed = <<>>
    /\ called = <<>>

\* the caller invokes route_request(user_message, conversation_history, context)
RouteRequest(user_message, context) ==
    /\ pc = "idle"
    /\ request' = [user_message |-> user_message, context |-> context]
    /\ pc' = "attempt"
    /\ escalation' = <<>>
    /\ response' = <<>>
    /\ attempts' = 0
    /\ result' = <<>>
    /\ UNCHANGED <<rules, healthy>>
    /\ UNCHANGED outside_controller

\* mutant: the completion call is made whatever the escalation check says
BeginAttempt_calls_model_first ==
    /\ pc = "attempt"
    /\ escalation' = check_escalation(rules, request.user_message, request.context)
    /\ result' = result
    /\ pc' = "calling"
    /\ attempts' = attempts + 1
    /\ UNCHANGED <<rules, request, response, healthy>>
    /\ UNCHANGED outside_controller

\* an attempt starts: the escalation check, then either the early return or
\* the completion call
BeginAttempt ==
    /\ pc = "attempt"
    /\ LET escalation_check ==
               check_escalation(rules, request.user_message, request.context)
       IN  /\ escalation' = escalation_check
           /\ IF escalation_check.should_escalate
              THEN /\ result' = escalation_check
                   /\ pc' = "done"
                   /\ attempts' = attempts
              ELSE /\ result' = result
                   /\ pc' = "calling"
                   /\ attempts' = attempts + 1
    /\ UNCHANGED <<rules, request, response, healthy>>
    /\ UNCHANGED outside_controller

\* the completion call resolves and the attempt runs to its end; the retry
\* decorator then returns, calls again or re-raises
CompletionResolves(completion) ==
    /\ pc = "calling"
    /\ response' = completion
    /\ LET tried == try_completion(completion)
           outcome == except_handler(tried)
       IN  /\ healthy' = IF "raised" \in DOMAIN tried /\ "returned" \in DOMAIN outcome
                         THEN FALSE ELSE healthy
           /\ IF retry_again(outcome, attempts)
              THEN /\ pc' = "attempt"
                   /\ result' = result
              ELSE /\ pc' = "done"
                   /\ result' = IF "returned" \in DOMAIN outcome
                                THEN outcome.returned
                                ELSE [raised |-> outcome.raised]
    /\ UNCHANGED <<rules, request, escalation, attempts>>
    /\ UNCHANGED outside_controller

\* the caller takes the decision
Return ==
    /\ pc = "done"
    /\ pc' = "idle"
    /\ request' = <<>>
    /\ UNCHANGED <<rules, escalation, response, attempts, healthy, result>>
    /\ UNCHANGED outside_controller

NextController ==
    \/ \E user_message \in RequestMessages, context \in RequestContexts :
           RouteRequest(user_message, context)
    \/ BeginAttempt
    \/ \E completion \in Completions : CompletionResolves(completion)
    \/ Return

SpecController == InitController /\ [][NextController]_vars

-----------------------------------------------------------------------------
(* Properties of the orchestration state machine *)

\* the ConversationState of the current run
running == states[run_id]

InRun == run_id # None

turn_count_of(state) == get(state.context, "turn_count", 0)

\* how many of the nodes executed in the current run are in `names`
visited(names) == Cardinality({i \in 1..Len(trace) : trace[i] \in names})

\* the node executed last in the current run
last_visited == trace[Len(trace)]

\* a step in which a graph node executes
NodeExecutes == Len(trace') = Len(trace) + 1

\* C1: every run of the graph reaches END after a bounded number of node
\* visits, whatever the monitor agent returns, because turn_count bounds the
\* controller -> monitor -> controller cycle: a cycle is two node visits and
\* turn_count allows TurnLimit + 1 of them, so no run executes more than
\* 2 * (TurnLimit + 1) + 2 nodes.
C1_RunBoundedByTurnCount == Len(trace) <= 2 * (TurnLimit + 1) + 2

\* C2: after a specialist node, turn_count > 10 sends the graph to END even
\* when the specialist asked for a follow-up specialist; with turn_count <= 10
\* a follow-up request goes back to the controller.
C2_TurnLimitForcesEnd ==
    (InRun /\ trace # <<>> /\ last_visited \in Specialists) =>
        /\ turn_count_of(running) > TurnLimit => node = END
        /\ (turn_count_of(running) <= TurnLimit /\ running.next_action \in Specialists)
               => node = "controller"

\* C2 witness: the monitor asked for the resolution follow-up on turn 11 and
\* the graph went to END
C2_Witness ==
    /\ InRun /\ trace # <<>> /\ last_visited = "monitor"
    /\ running.next_action = "resolution"
    /\ turn_count_of(running) = TurnLimit + 1
    /\ node = END

\* C3: within one run at most one specialist-to-controller follow-up hop
\* occurs and the run then terminates: the controller executes at most twice,
\* at most two specialist nodes execute, and no specialist executes twice.
C3_AtMostOneFollowUpHop ==
    /\ visited({"controller"}) <= 2
    /\ visited(Specialists) <= 2
    /\ \A agent \in Specialists : visited({agent}) <= 1

\* C4: turn_count counts the appended messages, none uncounted and none
\* counted twice: every step that appends messages to a conversation, by
\* add_message or by a graph node, raises its turn_count by the number of
\* messages it appended.
C4_TurnCountCountsMessages ==
    [][\A id \in DOMAIN states \cap DOMAIN states' :
          Len(states'[id].messages) > Len(states[id].messages) =>
              turn_count_of(states'[id]) - turn_count_of(states[id])
                  = Len(states'[id].messages) - Len(states[id].messages)]_vars

\* C5: every execution of a graph node (controller or specialist) in a run on
\* a conversation that holds a message appends exactly one assistant-role
\* message and raises turn_count by exactly one.
C5_NodeAppendsOneMessage ==
    [][NodeExecutes =>
          LET before == states[run_id]
              after == states'[run_id]
          IN  before.messages # <<>> =>
              /\ Len(after.messages) = Len(before.messages) + 1
              /\ after.messages[Len(after.messages)].role = "assistant"
              /\ turn_count_of(after) = turn_count_of(before) + 1]_vars

\* C6: when should_escalate(context) holds for a turn (a run on a conversation
\* that holds a message), the controller node sets current_agent to the
\* human-escalation sentinel and no specialist node is entered.
C6_EscalationBypassesSpecialists ==
    (InRun /\ trace # <<>> /\ running.messages # <<>>
        /\ should_escalate(running.context)) =>
        /\ running.current_agent \in {"human", "human_escalation"}
        /\ visited(Specialists) = 0
        /\ node \notin Specialists

-----------------------------------------------------------------------------
(* Properties of the escalation check and of route_request *)

\* _check_escalation has run for the request in progress
Checked == request # <<>> /\ escalation # <<>>

\* a keyword of a keyword trigger occurs in the message, ignoring letter case
keyword_occurs(trigger, user_message) ==
    /\ "keywords" \in DOMAIN condition_of(trigger)
    /\ \E k \in 1..Len(condition_of(trigger).keywords) :
           contains(lower(condition_of(trigger).keywords[k]), lower(user_message))

\* the order value the context gives, an absent one counting as 0
order_value_of(context) == get(context, "order_value", 0)

\* the order value is strictly above the threshold of a value trigger
value_above(trigger, context) ==
    /\ "order_value_exceeds" \in DOMAIN condition_of(trigger)
    /\ order_value_of(context) > condition_of(trigger).order_value_exceeds

\* the customer tier is in the set of a tier trigger marked non-auto-escalate
tier_member(trigger, context) ==
    /\ "customer_tier" \in DOMAIN condition_of(trigger)
    /\ get(trigger, "auto_escalate", TRUE) = FALSE
    /\ get(context, "customer_tier", None) \in condition_of(trigger).customer_tier

NoKeywordOccurs ==
    \A i \in 1..Len(rules) : ~keyword_occurs(rules[i], request.user_message)

\* C7: when a keyword of a configured keyword trigger occurs in the message
\* as a substring ignoring letter case, whatever the case of the configured
\* keyword and of the message, _check_escalation returns should_escalate =
\* True with an escalation tier, a reason and a trigger id, whatever the
\* context holds.
C7_KeywordEscalates ==
    (Checked /\ ~NoKeywordOccurs) =>
        /\ escalation.should_escalate = TRUE
        /\ {"escalate_to_tier", "reason", "trigger_id"} \subseteq DOMAIN escalation

\* C8: for a message matching no keyword trigger, _check_escalation escalates
\* exactly when the order value is strictly greater than the threshold of a
\* value trigger: a value equal to the threshold, below it, or absent
\* (counted as 0) does not escalate.
C8_ValueThresholdStrict ==
    (Checked /\ NoKeywordOccurs) =>
        (escalation.should_escalate
            <=> \E i \in 1..Len(rules) : value_above(rules[i], request.context))

\* C8 witness: an order value exactly at the threshold of the only value
\* trigger was checked and did not escalate
C8_Witness ==
    /\ Checked /\ NoKeywordOccurs
    /\ \E i \in 1..Len(rules) :
          /\ "order_value_exceeds" \in DOMAIN condition_of(rules[i])
          /\ "order_value" \in DOMAIN request.context
          /\ request.context.order_value = condition_of(rules[i]).order_value_exceeds
          /\ \A j \in 1..Len(rules) :
                 j # i => "order_value_exceeds" \notin DOMAIN condition_of(rules[j])
    /\ ~escalation.should_escalate

\* C9: when the customer tier is in the set of a tier-membership trigger
\* marked non-auto-escalate and no earlier trigger matches, the escalation
\* check returns the soft offer: should_escalate = False with
\* offer_escalation = True.
C9_TierOffersEscalation ==
    (Checked /\ \E i \in 1..Len(rules) :
                    /\ tier_member(rules[i], request.context)
                    /\ \A j \in 1..(i - 1) :
                           /\ ~keyword_occurs(rules[j], request.user_message)
                           /\ ~value_above(rules[j], request.context)) =>
        /\ escalation.should_escalate = FALSE
        /\ get(escalation, "offer_escalation", FALSE) = TRUE

\* the completion call of the request failed: a timeout, a provider error, or
\* function-call arguments that are not valid JSON
CompletionFailed ==
    /\ response # <<>>
    /\ \/ response.kind \in Retryable
       \/ response.kind = "function_call" /\ ~response.arguments_valid

\* route_request handed an exception to its caller
Raised == "raised" \in DOMAIN result

\* C10 as claimed: route_request never raises, and a failed model call yields
\* the fallback decision with agent = "controller", fallback = True and error
\* set to the failure message.
C10_FallbackAgentController ==
    pc = "done" =>
        /\ ~Raised
        /\ CompletionFailed =>
               result = [agent |-> "controller", fallback |-> TRUE,
                         error |-> response.message]

\* C10 as amended: route_request never raises, and a failed model call yields
\* the fallback decision with agent = "controller_agent", fallback = True and
\* error set to the failure message.
C10_FailureYieldsFallback ==
    pc = "done" =>
        /\ ~Raised
        /\ CompletionFailed =>
               result = [agent |-> "controller_agent", fallback |-> TRUE,
                         error |-> response.message]

\* C10 witness: a call whose completion failed has returned the fallback
C10_Witness ==
    /\ pc = "done"
    /\ CompletionFailed
    /\ response.kind = "function_call"
    /\ get(result, "fallback", FALSE) = TRUE

\* C11: a transient failure of the completion call (timeout or provider API
\* error) is retried, up to MaxAttempts attempts in total: when route_request
\* has returned and its last completion call failed transiently, that call was
\* attempt number MaxAttempts and the decision is the fallback.
C11_FallbackOnlyAfterLastAttempt ==
    (pc = "done" /\ response # <<>> /\ response.kind \in Retryable) =>
        /\ attempts = MaxAttempts
        /\ get(result, "fallback", FALSE) = TRUE

-----------------------------------------------------------------------------
(* StateManager.add_message called from several callers at once.  The class *)
(* holds no lock, so the statements of two calls interleave; the in-place   *)
(* increment of turn_count is a load followed by a store.                   *)

Callers == {"caller_1", "caller_2"}

SharedIds == {"conv_1", "conv_2"}

CallerMessages == {<<"h","i">>, <<"r","e","f","u","n","d">>}

no_call == [at |-> "idle"]

InitConcurrent ==
    /\ states = <<>>
    /\ calls = [caller \in Callers |-> no_call]
    /\ run_id = None
    /\ has_monitor = FALSE
    /\ node = "idle"
    /\ trace = <<>>
    /\ ControllerIdle
    /\ StoreIdle
    /\ RouterIdle

concurrent_frame ==
    UNCHANGED <<run_id, has_monitor, node, trace, controller_vars, store_vars, router_vars>>

\* create_state for a conversation id that is not in use yet
CallCreateState(caller, id) ==
    /\ calls[caller].at = "idle"
    /\ id \notin DOMAIN states
    /\ states' = store(id, create_state(id, None, None))
    /\ UNCHANGED calls
    /\ concurrent_frame

\* add_message is entered: the state is looked up and the message dict built
CallAddMessage(caller, id, role, content) ==
    /\ calls[caller].at = "idle"
    /\ id \in DOMAIN states
    /\ Len(states[id].messages) < MaxMessages
    /\ calls' = [calls EXCEPT ![caller] =
                    [at |-> "append", id |-> id,
                     message |-> new_message(role, content, None)]]
    /\ UNCHANGED states
    /\ concurrent_frame

\* state['messages'].append(message)
AppendMessage(caller) ==
    /\ calls[caller].at = "append"
    /\ states' = [states EXCEPT ![calls[caller].id].messages =
                     Append(@, calls[caller].message)]
    /\ calls' = [calls EXCEPT ![caller].at = "load"]
    /\ concurrent_frame

\* state['context']['turn_count'] += 1: the current value is loaded
LoadTurnCount(caller) ==
    /\ calls[caller].at = "load"
    /\ calls' = [calls EXCEPT ![caller] =
                    [at |-> "store", id |-> @.id,
                     loaded |-> states[@.id].context.turn_count]]
    /\ UNCHANGED states
    /\ concurrent_frame

\* state['context']['turn_count'] += 1: the sum is stored, and the call returns
StoreTurnCount(caller) ==
    /\ calls[caller].at = "store"
    /\ states' = [states EXCEPT ![calls[caller].id].context =
                     update(@, [turn_count |-> calls[caller].loaded + 1])]
    /\ calls' = [calls EXCEPT ![caller] = no_call]
    /\ concurrent_frame

NextConcurrent ==
    \/ \E caller \in Callers, id \in SharedIds : CallCreateState(caller, id)
    \/ \E caller \in Callers, id \in SharedIds, content \in CallerMessages :
           CallAddMessage(caller, id, "user", content)
    \/ \E caller \in Callers : AppendMessage(caller)
    \/ \E caller \in Callers : LoadTurnCount(caller)
    \/ \E caller \in Callers : StoreTurnCount(caller)

SpecConcurrent == InitConcurrent /\ [][NextConcurrent]_vars

\* C12: no two turns on the same conversation id are in progress at the same
\* time: two callers that are both inside a StateManager mutation sequence
\* are working on different conversation ids.
C12_OneTurnPerConversation ==
    \A c1 \in DOMAIN calls, c2 \in DOMAIN calls :
        (c1 # c2 /\ calls[c1].at # "idle" /\ calls[c2].at # "idle") =>
            calls[c1].id # calls[c2].id

-----------------------------------------------------------------------------
(* StateManager: the remaining operations, and the JSON conversion of       *)
(* export_state / import_state.  A JSON document is a tree of tagged        *)
(* values; json.dumps builds it from Python values and json.loads builds    *)
(* Python values from it.                                                   *)

\* StateManager.update_state on an existing state: the keys of `updates` that
\* are keys of the state are overwritten, the others are ignored
update_state(state, updates) ==
    [key \in DOMAIN state |->
        IF key \in DOMAIN updates THEN updates[key] ELSE state[key]]

\* StateManager.set_current_agent
set_current_agent(state, agent_name) ==
    update_state(state, [current_agent |-> agent_name])

\* StateManager.set_next_action
set_next_action(state, action) ==
    update_state(state, [next_action |-> action])

\* StateManager.get_messages without last_n: the list itself, [] when the
\* conversation is unknown
get_messages(all_states, conversation_id) ==
    IF conversation_id \in DOMAIN all_states
    THEN all_states[conversation_id].messages ELSE <<>>

json_null == [json |-> "null"]

json_string(s) == [json |-> "string", value |-> s]

json_number(n) == [json |-> "number", value |-> n]

json_bool(b) == IF b THEN [json |-> "true"] ELSE [json |-> "false"]

json_array(items) == [json |-> "array", items |-> items]

json_object(members) == [json |-> "object", members |-> members]

\* json.dumps of an Optional[str]
dumps_optional(v) == IF v = None THEN json_null ELSE json_string(v)

\* json.dumps of what the program keeps under a context key
dumps_context_value(key, v) ==
    CASE key \in {"turn_count", "routing_confidence"} -> json_number(v)
      [] key = "issues_detected" ->
            json_array([i \in DOMAIN v |-> json_string(v[i])])
      [] key \in {"escalate", "requires_approval", "image_uploaded"} -> json_bool(v)
      [] OTHER -> dumps_optional(v)

\* json.dumps of a message dict
dumps_message(message) ==
    json_object([key \in DOMAIN message |-> dumps_optional(message[key])])

\* json.dumps of a ConversationState
dumps(state) ==
    json_object(
        [key \in DOMAIN state |->
            CASE key = "messages" ->
                    json_array([i \in DOMAIN state.messages |->
                                   dumps_message(state.messages[i])])
              [] key = "context" ->
                    json_object([k \in DOMAIN state.context |->
                                    dumps_context_value(k, state.context[k])])
              [] key = "metadata" -> json_object(<<>>)
              [] OTHER -> dumps_optional(state[key])])

\* json.loads of a scalar
loads_scalar(doc) ==
    CASE doc.json = "null" -> None
      [] doc.json \in {"string", "number"} -> doc.value
      [] doc.json = "true" -> TRUE
      [] OTHER -> FALSE

\* json.loads: arrays become lists, objects become dicts
RECURSIVE loads(_)
loads(doc) ==
    CASE doc.json = "array" -> [i \in DOMAIN doc.items |-> loads(doc.items[i])]
      [] doc.json = "object" -> [k \in DOMAIN doc.members |-> loads(doc.members[k])]
      [] OTHER -> loads_scalar(doc)

\* StateManager.export_state: "{}" for an unknown conversation
export_state(all_states, conversation_id) ==
    IF conversation_id \notin DOMAIN all_states THEN json_object(<<>>)
    ELSE dumps(all_states[conversation_id])

\* StateManager.import_state into the dict all_states; a document without a
\* conversation_id raises KeyError and stores nothing
import_state(all_states, state_json) ==
    LET state == loads(state_json)
    IN  IF "conversation_id" \notin DOMAIN state THEN all_states
        ELSE [k \in DOMAIN all_states \cup {state.conversation_id} |->
                 IF k = state.conversation_id THEN state ELSE all_states[k]]

-----------------------------------------------------------------------------
(* The StateManager as a state machine over two conversation ids.          *)
(* messages_of[id] is the set of conversation ids whose state['messages']  *)
(* is the same list object as that of id: an append through one of them is *)
(* an append to the list of all of them.                                   *)

\* the store model performs at most this many StateManager operations
MaxOps == 6

StoreIds == {"conv_1", "conv_2"}

StoreMessages == {[role |-> "user", content |-> <<"h","i">>, agent_type |-> None],
                  [role |-> "assistant", content |-> <<"o","k">>, agent_type |-> "controller"]}

StoreContextUpdates == {[sentiment |-> "negative"]}

\* the `updates` of update_state calls whose values are new objects
StateUpdates ==
    { [conversation_id |-> "conv_2"],
      [messages |-> <<>>],
      [sentiment |-> "negative"] }

AgentNames == {"monitor"}

NextActions == {"human"}

InitStore ==
    /\ states = <<>>
    /\ messages_of = <<>>
    /\ exported = <<>>
    /\ fresh = <<>>
    /\ ops = 0
    /\ last_call = <<>>
    /\ run_id = None
    /\ has_monitor = FALSE
    /\ node = "idle"
    /\ trace = <<>>
    /\ ControllerIdle
    /\ ThreadsIdle
    /\ RouterIdle

store_frame ==
    UNCHANGED <<run_id, has_monitor, node, trace, controller_vars, thread_vars, router_vars>>

\* one more operation was performed
performed == ops < MaxOps /\ ops' = ops + 1

\* the state of conversation id refers to a list object of its own
own_list(id, ids) ==
    [k \in ids |-> IF k = id THEN {id} ELSE messages_of[k] \ {id}]

\* the state of conversation id refers to the list object of conversation other
shared_list(id, other) ==
    [k \in DOMAIN states |->
        IF k = id \/ k \in messages_of[other] THEN messages_of[other] \cup {id}
        ELSE messages_of[k] \ {id}]

StoreCreateState(id) ==
    /\ states' = store(id, create_state(id, None, None))
    /\ messages_of' = own_list(id, DOMAIN states \cup {id})
    /\ last_call' = <<>>
    /\ UNCHANGED <<exported, fresh>>
    /\ performed
    /\ store_frame

\* mutant: a state is created for the unknown id and no error is reported
unknown_conversation_creates(all_states, conversation_id) ==
    [raised |-> None,
     states |-> [k \in DOMAIN all_states \cup {conversation_id} |->
                    IF k = conversation_id
                    THEN create_state(conversation_id, None, None)
                    ELSE all_states[k]]]

\* raise ValueError(f"Conversation {conversation_id} not found"): the
\* exception the caller gets and the states dict the call leaves
unknown_conversation(all_states, conversation_id) ==
    [raised |-> "ValueError", states |-> all_states]

\* a call of `operation` on conversation id: it raises when the id is not in
\* self.states, else it stores `after` and changes the sharing to `sharing`
Mutate(operation, id, after, sharing) ==
    /\ IF id \notin DOMAIN states
       THEN /\ states' = unknown_conversation(states, id).states
            /\ last_call' = [operation |-> operation, conversation_id |-> id,
                           raised |-> unknown_conversation(states, id).raised]
            /\ messages_of' = messages_of
       ELSE /\ states' = after
            /\ last_call' = [operation |-> operation, conversation_id |-> id,
                           raised |-> None]
            /\ messages_of' = sharing
    /\ UNCHANGED <<exported, fresh>>
    /\ performed
    /\ store_frame

\* update_state; list_from names the conversation whose list object
\* (as returned by get_messages) is the value of updates['messages'], None
\* when the values of `updates` are new objects
StoreUpdateState(id, updates, list_from) ==
    Mutate("update_state", id,
           store(id, update_state(states[id], updates)),
           IF "messages" \notin DOMAIN updates THEN messages_of
           ELSE IF list_from = None THEN own_list(id, DOMAIN states)
           ELSE shared_list(id, list_from))

StoreSetCurrentAgent(id, agent_name) ==
    Mutate("set_current_agent", id,
           store(id, set_current_agent(states[id], agent_name)), messages_of)

StoreSetNextAction(id, action) ==
    Mutate("set_next_action", id,
           store(id, set_next_action(states[id], action)), messages_of)

\* add_message: the append reaches every state that refers to the list
StoreAddMessage(id, message) ==
    Mutate("add_message", id,
           [k \in DOMAIN states |->
               IF k = id
               THEN add_message(states[id], message.role, message.content,
                                message.agent_type)
               ELSE IF k \in messages_of[id]
               THEN [states[k] EXCEPT !.messages =
                        Append(@, new_message(message.role, message.content,
                                              message.agent_type))]
               ELSE states[k]],
           messages_of)

StoreUpdateContext(id, context_updates) ==
    Mutate("update_context", id,
           store(id, update_context(states[id], context_updates)), messages_of)

\* clear_state
ClearState(id) ==
    /\ id \in DOMAIN states
    /\ states' = [k \in DOMAIN states \ {id} |-> states[k]]
    /\ messages_of' = [k \in DOMAIN states \ {id} |-> messages_of[k] \ {id}]
    /\ last_call' = <<>>
    /\ UNCHANGED <<exported, fresh>>
    /\ performed
    /\ store_frame

\* export_state; `exported.state` remembers the state that was exported.  The
\* document goes to a StateManager that was just constructed.
ExportState(id) ==
    /\ id \in DOMAIN states
    /\ exported' = [document |-> export_state(states, id),
                    conversation_id |-> id, state |-> states[id]]
    /\ fresh' = <<>>
    /\ last_call' = <<>>
    /\ UNCHANGED <<states, messages_of>>
    /\ performed
    /\ store_frame

\* import_state of the exported document into the fresh StateManager
ImportFresh ==
    /\ exported # <<>>
    /\ fresh' = import_state(<<>>, exported.document)
    /\ last_call' = <<>>
    /\ UNCHANGED <<states, messages_of, exported>>
    /\ performed
    /\ store_frame

\* import_state of the exported document into the StateManager itself
ImportState ==
    /\ exported # <<>>
    /\ states' = import_state(states, exported.document)
    /\ messages_of' = own_list(exported.state.conversation_id, DOMAIN states')
    /\ last_call' = <<>>
    /\ UNCHANGED <<exported, fresh>>
    /\ performed
    /\ store_frame

NextStore ==
    \/ \E id \in StoreIds : StoreCreateState(id)
    \/ \E id \in StoreIds, updates \in StateUpdates : StoreUpdateState(id, updates, None)
    \/ \E id \in StoreIds : \E other \in DOMAIN states \ {id} :
           StoreUpdateState(id, [messages |-> get_messages(states, other)], other)
    \/ \E id \in StoreIds, agent_name \in AgentNames : StoreSetCurrentAgent(id, agent_name)
    \/ \E id \in StoreIds, action \in NextActions : StoreSetNextAction(id, action)
    \/ \E id \in StoreIds, message \in StoreMessages : StoreAddMessage(id, message)
    \/ \E id \in StoreIds, u \in StoreContextUpdates : StoreUpdateContext(id, u)
    \/ \E id \in StoreIds : ClearState(id)
    \/ \E id \in StoreIds : ExportState(id)
    \/ ImportFresh
    \/ ImportState

SpecStore == InitStore /\ [][NextStore]_vars

-----------------------------------------------------------------------------
(* Properties of the StateManager *)

\* the sequence s is a prefix of the sequence t
IsPrefix(s, t) == Len(s) <= Len(t) /\ SubSeq(t, 1, Len(s)) = s

\* the conversation ids whose stored state differs before and after a step
changed_ids ==
    { id \in DOMAIN states \cup DOMAIN states' :
        \/ id \notin DOMAIN states
        \/ id \notin DOMAIN states'
        \/ states[id] # states'[id] }

\* C13: messages is append-only within a conversation: across every operation
\* on a conversation id that exists before and after it (every operation but
\* clear_state), the messages held before are a prefix of the messages held
\* after.
C13_MessagesAppendOnly ==
    [][\A id \in DOMAIN states \cap DOMAIN states' :
           IsPrefix(states[id].messages, states'[id].messages)]_vars

\* C15: conversation_id is immutable after creation: every state stored under
\* key k has conversation_id equal to k.
C15_ConversationIdImmutable ==
    \A k \in DOMAIN states : states[k].conversation_id = k

\* C16: an operation addressed to one conversation id leaves the state stored
\* under every other id unchanged, and two distinct conversations never share
\* a messages list.
C16_OtherConversationsUntouched ==
    [][/\ Cardinality(changed_ids) <= 1
       /\ \A id \in DOMAIN messages_of' : messages_of'[id] = {id}]_vars

\* C17: export_state followed by import_state into a fresh StateManager
\* stores, under the same conversation id, a state whose messages and context
\* are identical to those of the exported state.
C17_ExportImportRoundTrip ==
    fresh # <<>> =>
        /\ exported.conversation_id \in DOMAIN fresh
        /\ fresh[exported.conversation_id].messages = exported.state.messages
        /\ fresh[exported.conversation_id].context = exported.state.context

-----------------------------------------------------------------------------
(* AgentRouter.route and AgentOrchestrator.run applied to a message *)

\* mutant: run answers with an empty response
run_without_response(conversation_id, user_message, context) ==
    [response |-> <<>>, agent |-> "controller", state |-> <<>>]

\* AgentOrchestrator.run: the direct response, whatever the arguments
run(conversation_id, user_message, context) ==
    [response |-> <<"I","'","m"," ","p","r","o","c","e","s","s","i","n","g"," ","y","o","u","r"," ","r","e","q","u","e","s","t",".",".",".">>,
     agent |-> "controller",
     state |-> <<>>]

RouterMessages ==
    { <<"W","h","e","r","e"," ","i","s"," ","i","t">>, <<"r","e","f","u","n","d">>, <<"R","E","F","U","N","D"," ","p","l","e","a","s","e">>, <<"b","r","o","k","e","n">>, <<"s","w","a","p"," ","i","t">>,
      <<"t","o","o"," ","b","i","g">>, <<"h","i">>, <<>>, <<"t","h","a","n","k","s">>, <<"w","h","e","r","e"," ","i","s"," ","m","y"," ","r","e","f","u","n","d">>,
      <<"r","e","f","u","n","d"," ","m","o","n","e","y"," ","b","a","c","k"," ","s","t","a","t","u","s">>, <<"t","r","a","c","k"," ","d","e","l","i","v","e","r","y"," ","r","e","f","u","n","d">>,
      <<"w","r","o","n","g"," ","i","t","e","m"," ","s","i","z","e"," ","f","i","t">>, <<"d","i","f","f","e","r","e","n","t"," ","s","i","z","e">> }

RouterContexts ==
    { <<>>,
      [order_id |-> "ORD123"],
      [image_uploaded |-> TRUE],
      [requires_approval |-> TRUE],
      [escalate |-> TRUE],
      [escalate |-> FALSE],
      [image_uploaded |-> FALSE, requires_approval |-> FALSE, escalate |-> FALSE],
      [requires_approval |-> TRUE, escalate |-> TRUE],
      [image_uploaded |-> TRUE, escalate |-> TRUE],
      [order_id |-> "ORD123", requires_approval |-> TRUE] }

InitRouter ==
    /\ routed = <<>>
    /\ called = <<>>
    /\ states = <<>>
    /\ run_id = None
    /\ has_monitor = FALSE
    /\ node = "idle"
    /\ trace = <<>>
    /\ ControllerIdle
    /\ ThreadsIdle
    /\ StoreIdle

\* router.route(user_message, context)
Route(user_message, context) ==
    /\ routed' = [user_message |-> user_message, context |-> context,
                  decision |-> route(user_message, context), turn |-> <<>>]
    /\ called' = <<>>
    /\ UNCHANGED <<graph_vars, controller_vars, thread_vars, store_vars>>

\* orchestrator.run(conversation_id, user_message, context) for the message
Run(conversation_id) ==
    /\ routed # <<>>
    /\ routed.turn = <<>>
    /\ routed' = [routed EXCEPT
                     !.turn = run(conversation_id, routed.user_message, routed.context)]
    /\ UNCHANGED <<called, graph_vars, controller_vars, thread_vars, store_vars>>

\* the contexts should_escalate is called with
EscalationContexts ==
    { <<>>,
      [sentiment |-> "very_negative"],
      [sentiment |-> "negative"],
      [sentiment |-> "neutral", turn_count |-> 3],
      [turn_count |-> 0],
      [turn_count |-> TurnLimit - 1],
      [turn_count |-> TurnLimit],
      [turn_count |-> TurnLimit + 1],
      [turn_count |-> 15],
      [legal_keywords_detected |-> TRUE],
      [legal_keywords_detected |-> FALSE],
      [high_value_order |-> TRUE],
      [high_value_order |-> FALSE],
      [sentiment |-> "neutral", turn_count |-> TurnLimit, high_value_order |-> FALSE],
      [sentiment |-> "very_negative", turn_count |-> TurnLimit + 1],
      [sentiment |-> "neutral", legal_keywords_detected |-> TRUE] }

\* the flags a task result may carry
ResultFlags ==
    {"completed", "delay_detected", "out_of_stock", "exchange_processed",
     "refund_processed", "default"}

\* the task results get_next_agent is called with: every set of flags, each
\* carried with the value True or each with the value False
TaskResults ==
    UNION { {[f \in flags |-> TRUE], [f \in flags |-> FALSE]} : flags \in SUBSET ResultFlags }

CurrentAgents == Specialists \cup {"controller"}

\* router.should_escalate(context)
ShouldEscalate(context) ==
    /\ called' = [function |-> "should_escalate", context |-> context,
                  returned |-> should_escalate(context)]
    /\ routed' = <<>>
    /\ UNCHANGED <<graph_vars, controller_vars, thread_vars, store_vars>>

\* router.get_next_agent(current_agent, task_result)
GetNextAgent(current_agent, task_result) ==
    /\ called' = [function |-> "get_next_agent", current_agent |-> current_agent,
                  task_result |-> task_result,
                  returned |-> get_next_agent(current_agent, task_result)]
    /\ routed' = <<>>
    /\ UNCHANGED <<graph_vars, controller_vars, thread_vars, store_vars>>

NextRouter ==
    \/ \E user_message \in RouterMessages, context \in RouterContexts :
           Route(user_message, context)
    \/ \E conversation_id \in ConversationIds : Run(conversation_id)
    \/ \E context \in EscalationContexts : ShouldEscalate(context)
    \/ \E current_agent \in CurrentAgents, task_result \in TaskResults :
           GetNextAgent(current_agent, task_result)

SpecRouter == InitRouter /\ [][NextRouter]_vars

-----------------------------------------------------------------------------
(* Properties of the router *)

\* how many keywords of the intent occur in the lower-cased message
score_of(intent, user_message) ==
    keyword_score(keywords_of(intent), lower(user_message))

Intents == {"order_status", "defect", "exchange", "refund", "sizing"}

\* the context sets none of image_uploaded, requires_approval and escalate
NoOverride(context) ==
    /\ ~flag(context, "image_uploaded")
    /\ ~flag(context, "requires_approval")
    /\ ~flag(context, "escalate")

\* the intent scores higher than every other intent
HighestScoring(intent, user_message) ==
    /\ score_of(intent, user_message) > 0
    /\ \A other \in Intents \ {intent} :
           score_of(other, user_message) < score_of(intent, user_message)

\* the specialist the claim names for an intent
claimed_agent(intent) ==
    CASE intent = "order_status" -> "monitor"
      [] intent = "defect" -> "visual"
      [] intent \in {"exchange", "sizing"} -> "exchange"
      [] intent = "refund" -> "resolution"

C20_IntentSelectsSpecialist ==
    (routed # <<>> /\ NoOverride(routed.context)) =>
        \A intent \in Intents :
            HighestScoring(intent, routed.user_message) =>
                routed.decision.agent = claimed_agent(intent)

\* C20 witness: a message that matches 'refund' twice and 'status' once went
\* to resolution
C20_Witness ==
    /\ routed # <<>>
    /\ routed.user_message = <<"r","e","f","u","n","d"," ","m","o","n","e","y"," ","b","a","c","k"," ","s","t","a","t","u","s">>
    /\ NoOverride(routed.context)
    /\ score_of("refund", routed.user_message) = 2
    /\ score_of("order_status", routed.user_message) = 1
    /\ routed.decision.agent = "resolution"

-----------------------------------------------------------------------------
(* Further properties of the orchestration state machine *)

\* C14: in every conversation state next_action is unset, the terminal
\* sentinel END or one of the four specialist ids.
C14_NextActionIsSpecialistOrEnd ==
    \A id \in DOMAIN states :
        states[id].next_action \in {None, END} \cup Specialists

\* C19: a turn never goes through the monitor step without an assistant
\* message being appended there: the status message when the step succeeds,
\* an apology when it fails (the agent call raises, the agent is not
\* registered, or no order id is available).
C19_MonitorStepAlwaysAnswers ==
    [][(NodeExecutes /\ node = "monitor") =>
          LET before == states[run_id]
              after == states'[run_id]
          IN  /\ Len(after.messages) = Len(before.messages) + 1
              /\ after.messages[Len(after.messages)].role = "assistant"]_vars

-----------------------------------------------------------------------------
(* Further properties of the router *)

\* the confidence the claim gives for a match count and a context, in
\* hundredths
claimed_confidence(match_count, intent, context) ==
    LET base == IF match_count >= 2 THEN 90 ELSE IF match_count = 1 THEN 75 ELSE 70
        bonus == IF present(context, "order_id")
                    /\ intent \in {"order_status", "refund", "exchange"}
                 THEN 10 ELSE 0
    IN  IF base + bonus > 100 THEN 100 ELSE base + bonus

\* C21 as claimed: the confidence is 0.75 for one matching keyword of the
\* detected intent and 0.9 for two or more, plus 0.1 with an order_id and an
\* order_status, refund or exchange intent, capped at 1.0; the zero-match
\* value 0.7 is never returned.
C21_ZeroMatchBaseNeverReturned ==
    routed # <<>> =>
        /\ routed.decision.confidence =
              claimed_confidence(score_of(routed.decision.intent, routed.user_message),
                                 routed.decision.intent, routed.context)
        /\ routed.decision.confidence # 70

\* C21 as amended: the confidence is 0.7 when no keyword of the detected
\* intent matches (general_query, visual_verification), 0.75 for one match and
\* 0.9 for two or more, plus 0.1 with an order_id and an order_status, refund
\* or exchange intent, capped at 1.0.
C21_ConfidenceFromMatchCount ==
    routed # <<>> =>
        routed.decision.confidence =
            claimed_confidence(score_of(routed.decision.intent, routed.user_message),
                               routed.decision.intent, routed.context)

\* C21 witness: no keyword matched and 0.7 was returned
C21_Witness ==
    /\ routed # <<>>
    /\ routed.user_message = <<"t","h","a","n","k","s">>
    /\ present(routed.context, "order_id")
    /\ routed.decision.intent = "general_query"
    /\ routed.decision.confidence = 70

\* the intent categories in their declared order
IntentOrder == <<"order_status", "defect", "exchange", "refund", "sizing">>

\* the positions in IntentOrder of the intents that hold the highest score
TopScoring(user_message) ==
    { i \in 1..Len(IntentOrder) :
        /\ score_of(IntentOrder[i], user_message) > 0
        /\ \A j \in 1..Len(IntentOrder) :
               score_of(IntentOrder[j], user_message)
                   <= score_of(IntentOrder[i], user_message) }

\* C22: when several intents hold the highest keyword score, the detected
\* intent is the one declared first among them, and routing the same message
\* and context again yields the same agent and confidence.
C22_TieGoesToFirstDeclared ==
    (/\ routed # <<>>
     /\ ~flag(routed.context, "image_uploaded")
     /\ TopScoring(routed.user_message) # {}) =>
        /\ \E i \in TopScoring(routed.user_message) :
               /\ \A j \in TopScoring(routed.user_message) : i <= j
               /\ routed.decision.intent = IntentOrder[i]
        /\ route(routed.user_message, routed.context).agent = routed.decision.agent
        /\ route(routed.user_message, routed.context).confidence
               = routed.decision.confidence

\* C22 witness: 'different size' scores 1 for exchange and for sizing and was
\* detected as exchange
C22_Witness ==
    /\ routed # <<>>
    /\ routed.user_message = <<"d","i","f","f","e","r","e","n","t"," ","s","i","z","e">>
    /\ ~flag(routed.context, "image_uploaded")
    /\ Cardinality(TopScoring(routed.user_message)) = 2
    /\ routed.decision.intent = "exchange"

\* the last call was should_escalate
EscalationAsked == called # <<>> /\ called.function = "should_escalate"

\* the last call was get_next_agent
NextAgentAsked == called # <<>> /\ called.function = "get_next_agent"

\* C23: should_escalate returns True exactly when sentiment is
\* 'very_negative', or turn_count is strictly greater than 10, or
\* legal_keywords_detected is truthy, or high_value_order is truthy.
C23_ShouldEscalateExactly ==
    EscalationAsked =>
        (called.returned = TRUE <=>
            \/ ("sentiment" \in DOMAIN called.context
                    /\ called.context.sentiment = "very_negative")
            \/ ("turn_count" \in DOMAIN called.context
                    /\ called.context.turn_count > 10)
            \/ ("legal_keywords_detected" \in DOMAIN called.context
                    /\ called.context.legal_keywords_detected = TRUE)
            \/ ("high_value_order" \in DOMAIN called.context
                    /\ called.context.high_value_order = TRUE))

\* C23 witness: asked at turn_count = 10 with nothing else set, the answer
\* was False
C23_Witness ==
    /\ EscalationAsked
    /\ called.context = [turn_count |-> 10]
    /\ called.returned = FALSE

\* C29: get_next_agent returns 'end' whenever the result is flagged complete:
\* completed for any agent, exchange_processed for the exchange agent,
\* refund_processed for the resolution agent, whatever other flags it carries.
C29_CompleteResultEnds ==
    (/\ NextAgentAsked
     /\ \/ flag(called.task_result, "completed")
        \/ called.current_agent = "exchange"
               /\ flag(called.task_result, "exchange_processed")
        \/ called.current_agent = "resolution"
               /\ flag(called.task_result, "refund_processed")) =>
        called.returned = "end"

-----------------------------------------------------------------------------
(* Further properties of the controller *)

\* C26: the escalation check runs before the model call: when
\* _check_escalation returned should_escalate = True, route_request returns
\* that decision, with agent 'human_escalation', and the completion client
\* was not called in that turn.
C26_EscalationSkipsModelCall ==
    (pc = "done" /\ escalation # <<>> /\ escalation.should_escalate) =>
        /\ result = escalation
        /\ result.agent = "human_escalation"
        /\ attempts = 0
        /\ response = <<>>

\* C26 witness: a request escalated on its order value has returned
C26_Witness ==
    /\ pc = "done"
    /\ escalation # <<>>
    /\ escalation.should_escalate
    /\ order_value_of(request.context) = 501
    /\ result.agent = "human_escalation"
    /\ attempts = 0

\* the condition of the trigger matches the request: a keyword occurs in the
\* message ignoring letter case, or the order value is above the threshold
condition_matches(trigger) ==
    \/ keyword_occurs(trigger, request.user_message)
    \/ value_above(trigger, request.context)

\* the positions of the triggers whose condition matches the request
Matching == { i \in 1..Len(rules) : condition_matches(rules[i]) }

\* C27: the triggers are evaluated in list order and the result carries the
\* tier, reason and trigger_id of the first trigger whose condition matches;
\* with no matching trigger the result is should_escalate = False.
C27_FirstMatchingTriggerWins ==
    Checked =>
        IF Matching = {} THEN escalation.should_escalate = FALSE
        ELSE LET first == CHOOSE i \in Matching : \A j \in Matching : i <= j
             IN  /\ escalation.should_escalate = TRUE
                 /\ escalation.escalate_to_tier = rules[first].escalate_to_tier
                 /\ escalation.reason = rules[first].reason
                 /\ escalation.trigger_id = rules[first].trigger_id

-----------------------------------------------------------------------------
(* Properties of the transitions of the graph *)

\* the node the graph goes to after the monitor node, for an outcome of the
\* monitor agent
after_monitor(outcome) ==
    route_after_agent(monitor_node(running, has_monitor, outcome))

\* C24: two specialist outcomes that agree on success (both are results, with
\* the same message) cause the same transition whatever their domain fields
\* are: changing only issues_detected never changes the next node chosen.
C24_DomainFieldsDoNotDriveTransitions ==
    (InRun /\ node = "monitor") =>
        \A o1 \in MonitorOutcomes, o2 \in MonitorOutcomes :
            (/\ o1.kind = "result"
             /\ o2.kind = "result"
             /\ o1.status_message = o2.status_message) =>
                after_monitor(o1) = after_monitor(o2)

\* C25: when the monitor node has detected issues and set next_action to
\* 'resolution', and the run goes on through the controller, the node entered
\* after the controller is resolution, whatever the text of the message the
\* monitor appended.
C25_FollowUpReachesResolution ==
    [][(/\ NodeExecutes
        /\ node = "controller"
        /\ trace # <<>>
        /\ last_visited = "monitor"
        /\ running.next_action = "resolution") => node' = "resolution"]_vars

\* C28: a run never dispatches to a specialist on a next_action value left
\* over from an earlier step or run: when the controller node returns early
\* on an empty messages list, no specialist is entered.
C28_NoDispatchOnLeftOver ==
    [][(NodeExecutes /\ node = "controller" /\ running.messages = <<>>) =>
          node' \notin Specialists]_vars

-----------------------------------------------------------------------------
(* Properties of StateManager calls on unknown conversation ids *)

\* the operations that change an existing state
MutatingOperations ==
    {"update_state", "add_message", "update_context", "set_current_agent",
     "set_next_action"}

\* C30: a state-mutating operation that names a conversation id not in the
\* store reports a ValueError and leaves the whole store unchanged.
C30_UnknownIdRaisesAndKeepsStore ==
    [][(/\ ops' = ops + 1
        /\ last_call' # <<>>
        /\ last_call'.operation \in MutatingOperations
        /\ last_call'.conversation_id \notin DOMAIN states) =>
           /\ last_call'.raised = "ValueError"
           /\ states' = states]_vars

\* C30 witness: add_message named a conversation that is not stored, while
\* another conversation is, and raised
C30_Witness ==
    /\ last_call # <<>>
    /\ last_call.operation = "add_message"
    /\ last_call.conversation_id \notin DOMAIN states
    /\ states # <<>>
    /\ last_call.raised = "ValueError"

=============================================================================
